---- MODULE Spec2Model ----
(***************************************************************************)
(* Load & I/P calculation: the calculation engine of src/lib/calc.ts and   *)
(* the Page component of src/app/page.tsx that drives it.                  *)
(*                                                                         *)
(* JavaScript numbers are IEEE-754 doubles.  The model carries them as     *)
(* exact values and keeps the one rounding that decides a comparison with  *)
(* whole-number inputs: the product with the literal 1.15 or 1.1, whose    *)
(* double is not the decimal (see RoundedProduct).                         *)
(***************************************************************************)
EXTENDS Integers, Sequences, FiniteSets, TLC

VARIABLES data, loading, fetchState, selectedTireIndex, totalLoad, speed,
          positions, positionResults, crashed, call

vars == <<data, loading, fetchState, selectedTireIndex, totalLoad, speed,
          positions, positionResults, crashed, call>>

pageVars == <<data, loading, fetchState, selectedTireIndex, totalLoad, speed,
              positions, positionResults, crashed>>

----------------------------------------------------------------------------
(* Bounds of the model.                                                     *)

\* calcResultLoad / calcResultIP are applied to the reference values
\* (loadIndex, stdIP) 1 .. MaxIndex and to the measured values
\* (loadPerTire, ipByETRTO) 0 .. MaxValue.
MaxIndex == 100
MaxValue == 120
\* calcDamage takes four inputs; its reference values are
\* 10, 20, .., 10 * MaxDamageIndex and its measured values 0 .. MaxDamageValue.
MaxDamageIndex == 3
MaxDamageValue == 40
\* lookupSpeedRow is applied to tables of at most MaxRows rows whose speeds
\* are 10, 20, .., 10 * MaxSpeedStep, and to targets 0 .. 10 * MaxSpeedStep + 5.
MaxRows == 3
MaxSpeedStep == 3
\* The page holds at most MaxPositions axle positions.
MaxPositions == 3

----------------------------------------------------------------------------
(* Arbitrary-size naturals (little-endian limbs base 1000), used to compare *)
(* products such as l^5 * 10^4 and 11^4 * li^5 exactly.                    *)

RECURSIVE BigOf(_)
BigOf(k) == IF k = 0 THEN <<>> ELSE <<k % 1000>> \o BigOf(k \div 1000)

RECURSIVE BigMulCarry(_, _, _)
BigMulCarry(b, k, carry) ==
  IF b = <<>> THEN BigOf(carry)
  ELSE LET t == Head(b) * k + carry
       IN  <<t % 1000>> \o BigMulCarry(Tail(b), k, t \div 1000)

BigMul(b, k) == IF k = 0 THEN <<>> ELSE BigMulCarry(b, k, 0)

RECURSIVE BigProd(_)
BigProd(fs) == IF fs = <<>> THEN <<1>> ELSE BigMul(BigProd(Tail(fs)), Head(fs))

RECURSIVE BigCmpFrom(_, _, _)
BigCmpFrom(a, b, i) ==
  IF i = 0 THEN 0
  ELSE IF a[i] < b[i] THEN -1
  ELSE IF a[i] > b[i] THEN 1
  ELSE BigCmpFrom(a, b, i - 1)

BigCmp(a, b) ==
  IF Len(a) < Len(b) THEN -1
  ELSE IF Len(a) > Len(b) THEN 1
  ELSE BigCmpFrom(a, b, Len(a))

Rep(x, n) == [i \in 1..n |-> x]

----------------------------------------------------------------------------
(* JavaScript numbers.                                                      *)
(*   [k |-> "fin", n, d, pn, pd, e] is (n/d) * (pn/pd)^(5/4), e ulps aside  *)
(*   (e is -1, 0 or 1 and only orders numbers of equal exact value);        *)
(*   NaN, PosInf and NegInf are the three non-finite doubles.               *)

NaN == [k |-> "nan"]
PosInf == [k |-> "inf"]
NegInf == [k |-> "ninf"]

Abs(i) == IF i < 0 THEN -i ELSE i

RECURSIVE GCD(_, _)
GCD(a, b) == IF b = 0 THEN a ELSE GCD(b, a % b)

Fin(n, d, pn, pd, e) ==
  LET s == IF d < 0 THEN -1 ELSE 1
      g == GCD(Abs(n), Abs(d))
      h == GCD(pn, pd)
  IN  IF n = 0 THEN [k |-> "fin", n |-> 0, d |-> 1, pn |-> 1, pd |-> 1, e |-> e]
      ELSE [k |-> "fin", n |-> (s * n) \div g, d |-> (s * d) \div g,
            pn |-> pn \div h, pd |-> pd \div h, e |-> e]

Rat(n, d) == Fin(n, d, 1, 1, 0)
Num(i) == Rat(i, 1)

IsFin(x) == x.k = "fin"
IsRat(x) == IsFin(x) /\ x.pn = 1 /\ x.pd = 1
IsInteger(x) == IsRat(x) /\ x.d = 1 /\ x.e = 0
Sign(x) == IF x.n > 0 THEN 1 ELSE IF x.n < 0 THEN -1 ELSE 0

\* |x| against |y| for finite x, y: x^4 against y^4 by cross-multiplication.
CmpMag(x, y) ==
  IF IsRat(x) /\ IsRat(y)
  THEN BigCmp(BigProd(<<Abs(x.n), y.d>>), BigProd(<<Abs(y.n), x.d>>))
  ELSE BigCmp(BigProd(Rep(Abs(x.n), 4) \o Rep(x.pn, 5) \o Rep(y.d, 4) \o Rep(y.pd, 5)),
              BigProd(Rep(Abs(y.n), 4) \o Rep(y.pn, 5) \o Rep(x.d, 4) \o Rep(x.pd, 5)))

Cmp(x, y) ==
  LET sx == Sign(x)
      sy == Sign(y)
      main == IF sx # sy THEN (IF sx < sy THEN -1 ELSE 1)
              ELSE IF sx = 0 THEN 0
              ELSE sx * CmpMag(x, y)
  IN  IF main # 0 THEN main
      ELSE IF x.e < y.e THEN -1
      ELSE IF x.e > y.e THEN 1
      ELSE 0

\* The JavaScript operators >= and <= (false as soon as one side is NaN).
Ge(x, y) ==
  IF x.k = "nan" \/ y.k = "nan" THEN FALSE
  ELSE IF x.k = "inf" \/ y.k = "ninf" THEN TRUE
  ELSE IF x.k = "ninf" \/ y.k = "inf" THEN FALSE
  ELSE Cmp(x, y) >= 0

Le(x, y) == Ge(y, x)

\* x * (a/b) for a rational constant a/b > 0 taken exactly.
Scale(x, a, b) ==
  IF IsFin(x) THEN Fin(x.n * a, x.d * b, x.pn, x.pd, 0) ELSE x

\* Unary minus.
Neg(x) ==
  IF x.k = "inf" THEN NegInf
  ELSE IF x.k = "ninf" THEN PosInf
  ELSE IF x.k = "nan" THEN NaN
  ELSE [x EXCEPT !.n = -x.n, !.e = -x.e]

\* x / y for rationals.
Div(x, y) ==
  IF x.k = "nan" \/ y.k = "nan" THEN NaN
  ELSE IF ~IsFin(x) THEN
       (IF ~IsFin(y) THEN NaN
        ELSE IF (x.k = "inf") = (y.n >= 0) THEN PosInf ELSE NegInf)
  ELSE IF ~IsFin(y) THEN Num(0)
  ELSE IF y.n = 0 THEN
       (IF x.n > 0 THEN PosInf ELSE IF x.n < 0 THEN NegInf ELSE NaN)
  ELSE Rat(x.n * y.d, x.d * y.n)

\* Math.pow(r, 1.25).
Pow125(r) ==
  IF r.k = "nan" THEN NaN
  ELSE IF r.k = "inf" \/ r.k = "ninf" THEN PosInf
  ELSE IF r.n < 0 THEN NaN
  ELSE IF r.n = 0 THEN Num(0)
  ELSE Fin(1, 1, r.n, r.d, 0)

\* p * s for a rational s.
Times(p, s) ==
  IF p.k = "nan" \/ s.k = "nan" THEN NaN
  ELSE IF ~IsFin(p) /\ ~IsFin(s) THEN
       (IF p.k = s.k THEN PosInf ELSE NegInf)
  ELSE IF ~IsFin(p) THEN
       (IF s.n = 0 THEN NaN
        ELSE IF (p.k = "inf") = (s.n > 0) THEN PosInf ELSE NegInf)
  ELSE IF ~IsFin(s) THEN
       (IF p.n = 0 THEN NaN
        ELSE IF (s.k = "inf") = (p.n > 0) THEN PosInf ELSE NegInf)
  ELSE Fin(p.n * s.n, p.d * s.d, p.pn, p.pd, 0)

RECURSIVE Pow2Floor(_)
Pow2Floor(m) == IF m < 2 THEN 1 ELSE 2 * Pow2Floor(m \div 2)

\* x * c for the double c nearest to the decimal a/b, where c - a/b is
\* dir * 0.4 * 2^-52 (dir = -1 for 1.15, dir = 1 for 1.1).  For a whole
\* number x whose exact product N = x * a / b is a double, the product
\* x * c lies 0.4 * x * 2^-52 away from N and rounds to N when that is at
\* most half the spacing of the doubles at N (a tie goes to N, whose
\* mantissa is even), and to the neighbour of N on the side of dir
\* otherwise.
RoundedProduct(x, a, b, dir) ==
  IF ~IsFin(x) THEN x
  ELSE LET p == Fin(x.n * a, x.d * b, x.pn, x.pd, 0)
       IN  IF IsInteger(x) /\ x.n > 0 /\ p.d \in {1, 2, 4}
              /\ 4 * x.n > 5 * Pow2Floor(p.n \div p.d)
           THEN [p EXCEPT !.e = dir]
           ELSE p

----------------------------------------------------------------------------
(* src/lib/calc.ts                                                          *)

\* A SpeedRow is a record with the fields speed and psi (whole numbers) and
\* the load factors F, G, J, K, L, M (numbers); a row of the JSON file may
\* lack some of them.  Undefined is the JavaScript value undefined.
Undefined == [undefined |-> TRUE]

\* The JavaScript value null (a JSON null; the initial value of data).
Null == [null |-> TRUE]

SpeedSymbol == {"F", "G", "J", "K", "L", "M"}

\* Array.prototype.sort with (a, b) => a.speed - b.speed: ascending and
\* stable, on a copy of the table.
RECURSIVE InsertBySpeed(_, _)
InsertBySpeed(sorted, r) ==
  IF sorted = <<>> THEN <<r>>
  ELSE IF sorted[Len(sorted)].speed <= r.speed THEN Append(sorted, r)
  ELSE Append(InsertBySpeed(SubSeq(sorted, 1, Len(sorted) - 1), r),
              sorted[Len(sorted)])

RECURSIVE IdentityOrder(_)
IdentityOrder(table) ==
  IF table = <<>> THEN <<>>
  ELSE Append(IdentityOrder(SubSeq(table, 1, Len(table) - 1)), table[Len(table)])

RECURSIVE SortBySpeed(_)
SortBySpeed(table) ==
  IF table = <<>> THEN <<>>
  ELSE InsertBySpeed(SortBySpeed(SubSeq(table, 1, Len(table) - 1)),
                     table[Len(table)])

\* for (const r of sorted) if (r.speed <= speed) row = r;
RECURSIVE ScanRows(_, _, _, _)
ScanRows(sorted, i, target, row) ==
  IF i > Len(sorted) THEN row
  ELSE ScanRows(sorted, i + 1, target,
                IF sorted[i].speed <= target THEN sorted[i] ELSE row)

\* data.speed_table.sort(...): the sort run on the table itself.
speedTableSortedInPlace(table) == SortBySpeed(table)

\* [...data.speed_table].sort(...): the copy is sorted, the table the
\* caller holds is left as it was.
speedTableAfterLookup(table) == table

\* A scan that replaces the row only by one of a greater speed:
\* if (r.speed <= speed && r.speed > row.speed) row = r;
lookupSpeedRowFirstDuplicate(d, target) ==
  LET sorted == SortBySpeed(d.speed_table)
      RECURSIVE Scan(_, _)
      Scan(i, row) ==
        IF i > Len(sorted) THEN row
        ELSE Scan(i + 1, IF sorted[i].speed <= target
                            /\ sorted[i].speed > row.speed
                         THEN sorted[i] ELSE row)
  IN  Scan(1, IF sorted = <<>> THEN Undefined ELSE sorted[1])

\* The scan run over the table as stored, without the sort.
lookupSpeedRowUnsorted(d, target) ==
  ScanRows(d.speed_table, 1, target,
           IF d.speed_table = <<>> THEN Undefined ELSE d.speed_table[1])

lookupSpeedRowStrict(d, target) ==
  LET sorted == SortBySpeed(d.speed_table)
      RECURSIVE Scan(_, _)
      Scan(i, row) ==
        IF i > Len(sorted) THEN row
        ELSE Scan(i + 1, IF sorted[i].speed < target THEN sorted[i] ELSE row)
  IN  Scan(1, IF sorted = <<>> THEN Undefined ELSE sorted[1])

lookupSpeedRow(d, target) ==
  LET sorted == SortBySpeed(d.speed_table)
  IN  ScanRows(sorted, 1, target,
               IF sorted = <<>> THEN Undefined ELSE sorted[1])

calcResultLoadStrict(loadPerTire, loadIndex) ==
  LET maxAllowedLoad == RoundedProduct(loadIndex, 23, 20, -1)
  IN  IF Ge(loadPerTire, maxAllowedLoad) /\ ~Le(loadPerTire, maxAllowedLoad)
      THEN "Over Load" ELSE "OK"

calcResultLoad(loadPerTire, loadIndex) ==
  LET maxAllowedLoad == RoundedProduct(loadIndex, 23, 20, -1)
  IN  IF Ge(loadPerTire, maxAllowedLoad) THEN "Over Load" ELSE "OK"

TypeError == [thrown |-> "TypeError"]

\* const factor = row[symbol] || 1: a factor of 0 (and a missing or null
\* one) replaced by 1.
getLimitLoadFallback(loadIndex, row, symbol) ==
  IF row = Undefined THEN TypeError
  ELSE IF symbol \notin DOMAIN row THEN loadIndex
  ELSE IF row[symbol] = Null \/ row[symbol] = Num(0) THEN loadIndex
  ELSE Times(row[symbol], loadIndex)

\* row[symbol] of undefined throws; a missing key reads undefined, and
\* loadIndex * undefined is NaN; a JSON null converts to 0 in the product.
getLimitLoad(loadIndex, row, symbol) ==
  IF row = Undefined THEN TypeError
  ELSE IF symbol \notin DOMAIN row THEN NaN
  ELSE IF row[symbol] = Null THEN Times(Num(0), loadIndex)
  ELSE Times(row[symbol], loadIndex)

\* The exponent left out: (loadPerTire / loadIndex) * stdIP.
calcIPByETRTOLinear(loadPerTire, loadIndex, stdIP) ==
  Times(Div(loadPerTire, loadIndex), stdIP)

\* The ratio taken the wrong way round: loadIndex / loadPerTire.
calcIPByETRTOInverted(loadPerTire, loadIndex, stdIP) ==
  LET loadRatio == Div(loadIndex, loadPerTire)
  IN  Times(Pow125(loadRatio), stdIP)

calcIPByETRTO(loadPerTire, loadIndex, stdIP) ==
  LET loadRatio == Div(loadPerTire, loadIndex)
  IN  Times(Pow125(loadRatio), stdIP)

\* The comparison turned round: <= in place of >=.
calcResultIPInverted(ipByETRTO, stdIP) ==
  LET maxAllowedIP == RoundedProduct(stdIP, 11, 10, 1)
  IN  IF Le(ipByETRTO, maxAllowedIP) THEN "CONSULT TO BS" ELSE "OK"

\* The limit taken at 120% of the standard pressure.
calcResultIPLaxThreshold(ipByETRTO, stdIP) ==
  LET maxAllowedIP == Scale(stdIP, 12, 10)
  IN  IF Ge(ipByETRTO, maxAllowedIP) THEN "CONSULT TO BS" ELSE "OK"

calcResultIP(ipByETRTO, stdIP) ==
  LET maxAllowedIP == RoundedProduct(stdIP, 11, 10, 1)
  IN  IF Ge(ipByETRTO, maxAllowedIP) THEN "CONSULT TO BS" ELSE "OK"

\* (((x - b) / b) * 100).toFixed(0) + "%".  toFixed(0) gives the nearest
\* integer, the one of greater magnitude on a tie, with a leading "-" for a
\* negative number; the quotient is taken exactly.
\* For x >= b > 0 the integer is the greatest n with 200 x >= (199 + 2n) b.
RECURSIVE FirstFailing(_, _, _)
FirstFailing(x, b, n) ==
  IF Ge(Scale(x, 200, 1), Scale(b, 199 + 2 * n, 1))
  THEN FirstFailing(x, b, 2 * n + 1) ELSE n

RECURSIVE GreatestHolding(_, _, _, _)
GreatestHolding(x, b, lo, hi) ==
  IF hi - lo <= 1 THEN lo
  ELSE LET mid == (lo + hi) \div 2
       IN  IF Ge(Scale(x, 200, 1), Scale(b, 199 + 2 * mid, 1))
           THEN GreatestHolding(x, b, mid, hi)
           ELSE GreatestHolding(x, b, lo, mid)

\* For 0 < b and x < b the magnitude is the greatest n with
\* 200 x <= (201 - 2n) b.
RECURSIVE GreatestBelow(_, _, _)
GreatestBelow(x, b, n) ==
  IF Le(Scale(x, 200, 1), Scale(b, 201 - 2 * (n + 1), 1))
  THEN GreatestBelow(x, b, n + 1) ELSE n

RECURSIVE PercentString(_, _)
PercentString(x, b) ==
  IF x.k = "nan" \/ b.k = "nan" \/ ~IsFin(b) THEN "NaN%"
  ELSE IF b.n = 0 THEN
       (IF x.k = "inf" THEN "Infinity%"
        ELSE IF x.k = "ninf" THEN "-Infinity%"
        ELSE IF x.n > 0 THEN "Infinity%"
        ELSE IF x.n < 0 THEN "-Infinity%"
        ELSE "NaN%")
  ELSE IF b.n < 0 THEN PercentString(Neg(x), Neg(b))
  ELSE IF x.k = "inf" THEN "Infinity%"
  ELSE IF x.k = "ninf" THEN "-Infinity%"
  ELSE IF Ge(x, b)
       THEN ToString(GreatestHolding(x, b, 0, FirstFailing(x, b, 1))) \o "%"
  ELSE "-" \o ToString(GreatestBelow(x, b, 0)) \o "%"

calcDamage(loadPerTire, loadIndex, ipByETRTO, stdIP) ==
  LET damageByLoad ==
        IF Le(loadPerTire, RoundedProduct(loadIndex, 23, 20, -1)) THEN "OK"
        ELSE PercentString(loadPerTire, loadIndex)
      damageByIP ==
        IF Le(ipByETRTO, RoundedProduct(stdIP, 11, 10, 1)) THEN "OK"
        ELSE PercentString(ipByETRTO, stdIP)
  IN  [load |-> damageByLoad, ip |-> damageByIP]

----------------------------------------------------------------------------
(* Reference data: what fetch("/tire_data.json") may deliver.               *)

\* A Tire of the JSON file; its keys are those of the type Tire.
Tire(size, loadIndex, stdIP, symbol) ==
  ("TIRE Size" :> size) @@ ("LOAD INDEX" :> loadIndex) @@
  ("STD I/P" :> stdIP) @@ ("Speed symbol" :> symbol)

\* The tire sizes of the data sets, in the order of String.localeCompare.
TireSizes == <<"10.00R20", "11.00R20", "12.00R24">>

localeCompare(a, b) ==
  LET ra == CHOOSE i \in DOMAIN TireSizes : TireSizes[i] = a
      rb == CHOOSE i \in DOMAIN TireSizes : TireSizes[i] = b
  IN  ra - rb

Row(kmh, f, g, j, k, l, m, psi) ==
  [speed |-> kmh, F |-> Rat(f, 100), G |-> Rat(g, 100), J |-> Rat(j, 100),
   K |-> Rat(k, 100), L |-> Rat(l, 100), M |-> Rat(m, 100), psi |-> psi]

\* A row without the key F.
RowNoF(kmh, g, j, k, l, m, psi) ==
  [speed |-> kmh, G |-> Rat(g, 100), J |-> Rat(j, 100),
   K |-> Rat(k, 100), L |-> Rat(l, 100), M |-> Rat(m, 100), psi |-> psi]

SpeedTable ==
  << Row(50, 100, 100, 100, 100, 100, 100, 0),
     Row(30, 112, 110, 108, 106, 104, 102, 0),
     RowNoF(65, 0, 93, 95, 97, 99, 5) >>

Tires ==
  << Tire("12.00R24", 5000, 100, "K"),
     Tire("10.00R20", 2722, 120, "J"),
     Tire("11.00R20", 3000, 110, "F") >>

Datasets ==
  { [tires |-> Tires, speed_table |-> SpeedTable],
    [tires |-> <<>>, speed_table |-> SpeedTable],
    [tires |-> SubSeq(Tires, 1, 1), speed_table |-> <<>>] }

----------------------------------------------------------------------------
(* src/app/page.tsx: the Page component.                                    *)

\* json.tires.sort((a, b) => a["TIRE Size"].localeCompare(b["TIRE Size"]))
RECURSIVE InsertBySize(_, _)
InsertBySize(sorted, t) ==
  IF sorted = <<>> THEN <<t>>
  ELSE IF localeCompare(sorted[Len(sorted)]["TIRE Size"], t["TIRE Size"]) <= 0
       THEN Append(sorted, t)
  ELSE Append(InsertBySize(SubSeq(sorted, 1, Len(sorted) - 1), t),
              sorted[Len(sorted)])

RECURSIVE SortBySize(_)
SortBySize(tires) ==
  IF tires = <<>> THEN <<>>
  ELSE InsertBySize(SortBySize(SubSeq(tires, 1, Len(tires) - 1)),
                    tires[Len(tires)])

\* useMemo: data.tires[selectedTireIndex] || null
selectedTireOf(d, index) ==
  IF d = Null THEN Null
  ELSE IF index + 1 \in DOMAIN d.tires THEN d.tires[index + 1]
  ELSE Null

\* The callback with the load verdict taken against the limit load of the
\* resolved row: loadPerTire >= limitLoad.
PositionResultLimitVerdict(pos, row, tire, tl) ==
  LET loadPerPositionTon == Times(tl, pos.loadDistribution)
      loadPerTire ==
        Times(Div(loadPerPositionTon, Num(pos.tiresPerPosition)), Num(1000))
      loadIndex == Num(tire["LOAD INDEX"])
      stdIP == Num(tire["STD I/P"])
      limitLoad == getLimitLoad(loadIndex, row, tire["Speed symbol"])
      ipByETRTO == calcIPByETRTO(loadPerTire, loadIndex, stdIP)
      resultLoad == IF Ge(loadPerTire, limitLoad) THEN "Over Load" ELSE "OK"
      resultIP == calcResultIP(ipByETRTO, stdIP)
      damage == calcDamage(loadPerTire, loadIndex, ipByETRTO, stdIP)
  IN  [position |-> pos, row |-> row, loadPerTire |-> loadPerTire,
       limitLoad |-> limitLoad, ipByETRTO |-> ipByETRTO,
       resultLoad |-> resultLoad, resultIP |-> resultIP, damage |-> damage]

\* The callback with the load per tire rounded to a whole number of
\* kilograms (Math.round) before it is stored and used.
PositionResultRounded(pos, row, tire, tl) ==
  LET loadPerPositionTon == Times(tl, pos.loadDistribution)
      exact ==
        Times(Div(loadPerPositionTon, Num(pos.tiresPerPosition)), Num(1000))
      loadPerTire == Num((2 * exact.n + exact.d) \div (2 * exact.d))
      loadIndex == Num(tire["LOAD INDEX"])
      stdIP == Num(tire["STD I/P"])
      limitLoad == getLimitLoad(loadIndex, row, tire["Speed symbol"])
      ipByETRTO == calcIPByETRTO(loadPerTire, loadIndex, stdIP)
      resultLoad == calcResultLoad(loadPerTire, loadIndex)
      resultIP == calcResultIP(ipByETRTO, stdIP)
      damage == calcDamage(loadPerTire, loadIndex, ipByETRTO, stdIP)
  IN  [position |-> pos, row |-> row, loadPerTire |-> loadPerTire,
       limitLoad |-> limitLoad, ipByETRTO |-> ipByETRTO,
       resultLoad |-> resultLoad, resultIP |-> resultIP, damage |-> damage]

\* One element of positions.map(...): the PositionResult of pos.
PositionResult(pos, row, tire, tl) ==
  LET loadPerPositionTon == Times(tl, pos.loadDistribution)
      loadPerTire ==
        Times(Div(loadPerPositionTon, Num(pos.tiresPerPosition)), Num(1000))
      loadIndex == Num(tire["LOAD INDEX"])
      stdIP == Num(tire["STD I/P"])
      limitLoad == getLimitLoad(loadIndex, row, tire["Speed symbol"])
      ipByETRTO == calcIPByETRTO(loadPerTire, loadIndex, stdIP)
      resultLoad == calcResultLoad(loadPerTire, loadIndex)
      resultIP == calcResultIP(ipByETRTO, stdIP)
      damage == calcDamage(loadPerTire, loadIndex, ipByETRTO, stdIP)
  IN  [position |-> pos, row |-> row, loadPerTire |-> loadPerTire,
       limitLoad |-> limitLoad, ipByETRTO |-> ipByETRTO,
       resultLoad |-> resultLoad, resultIP |-> resultIP, damage |-> damage]

\* Values the inputs are given in the model.
TotalLoads == {Num(23), Num(35)}
Speeds == {20, 50, 65}
LoadDistributions == {Rat(50, 100)}

\* PositionResult is a pure function of its four arguments; it is tabulated
\* over the values they take in the model so that each is computed once.
PositionValues ==
  {[id |-> ToString(i), loadDistribution |-> ld, tiresPerPosition |-> n] :
     i \in 1..(MaxPositions + 1),
     ld \in {Rat(18, 100), Rat(13, 100)} \cup LoadDistributions,
     n \in {2, 4}}

RowValues == UNION {{d.speed_table[i] : i \in DOMAIN d.speed_table} : d \in Datasets}

TireValues == UNION {{d.tires[i] : i \in DOMAIN d.tires} : d \in Datasets}

PositionResultTable ==
  [tire \in TireValues |-> [tl \in TotalLoads |-> [row \in RowValues |->
     [pos \in PositionValues |-> PositionResult(pos, row, tire, tl)]]]]

positionResultsReversed(d, tire, ps, tl, sp) ==
  IF d = Null \/ tire = Null THEN <<>>
  ELSE LET row == lookupSpeedRow(d, sp)
       IN  IF row = Undefined THEN <<>>
           ELSE [i \in 1..Len(ps) |->
                   PositionResultTable[tire][tl][row][ps[Len(ps) + 1 - i]]]

positionResultsRowPerPosition(d, tire, ps, tl, sp) ==
  IF d = Null \/ tire = Null THEN <<>>
  ELSE IF lookupSpeedRow(d, sp) = Undefined THEN <<>>
  ELSE [i \in 1..Len(ps) |->
          PositionResultTable[tire][tl][lookupSpeedRow(d, sp - 20 * (i - 1))][ps[i]]]

\* Every result computed from the fields of the first position.
positionResultsShareOfFirst(d, tire, ps, tl, sp) ==
  IF d = Null \/ tire = Null THEN <<>>
  ELSE LET row == lookupSpeedRow(d, sp)
       IN  IF row = Undefined THEN <<>>
           ELSE [i \in 1..Len(ps) |->
                   [PositionResultTable[tire][tl][row][ps[1]]
                      EXCEPT !.position = ps[i]]]

\* useMemo(() => { if (!data || !selectedTire) return []; ... })
\* (with an undefined row and a position to map the callback throws, see
\* RenderThrows; with no position the map is empty)
positionResultsOf(d, tire, ps, tl, sp) ==
  IF d = Null \/ tire = Null THEN <<>>
  ELSE LET row == lookupSpeedRow(d, sp)
       IN  IF row = Undefined THEN <<>>
           ELSE [i \in 1..Len(ps) |->
                   IF ps[i] \in PositionValues
                   THEN PositionResultTable[tire][tl][row][ps[i]]
                   ELSE PositionResult(ps[i], row, tire, tl)]

\* getLimitLoad reads row[symbol] of undefined when the speed table is empty
\* and there is a position to map: the render throws.
RenderThrows(d, tire, ps, sp) ==
  /\ d # Null
  /\ tire # Null
  /\ ps # <<>>
  /\ lookupSpeedRow(d, sp) = Undefined

\* A memo whose dependency list lacks speed: the results keep the row of
\* the speed of the previous render.
RenderStale(d, index, tl, sp, ps) ==
  LET tire == selectedTireOf(d, index)
  IN  /\ data' = d
      /\ IF RenderThrows(d, tire, ps, sp)
         THEN crashed' = TRUE /\ positionResults' = positionResults
         ELSE crashed' = crashed
              /\ positionResults' = positionResultsOf(d, tire, ps, tl, speed)

\* A render after the state has become (d, index, tl, sp, ps): the memoised
\* positionResults are recomputed, or the render throws and the tree is lost.
Render(d, index, tl, sp, ps) ==
  LET tire == selectedTireOf(d, index)
  IN  /\ data' = IF d = Null \/ tire = Null THEN d
                 ELSE [d EXCEPT !.speed_table = speedTableAfterLookup(@)]
      /\ IF RenderThrows(d, tire, ps, sp)
         THEN crashed' = TRUE /\ positionResults' = positionResults
         ELSE crashed' = crashed
              /\ positionResults' = positionResultsOf(d, tire, ps, tl, sp)

InitPage ==
  /\ data = Null
  /\ loading = TRUE
  /\ fetchState = "pending"
  /\ selectedTireIndex = 0
  /\ totalLoad = Num(35)
  /\ speed = 50
  /\ positions = << [id |-> "1", loadDistribution |-> Rat(18, 100),
                     tiresPerPosition |-> 2] >>
  /\ positionResults = <<>>
  /\ crashed = FALSE

\* .then((json) => { json.tires.sort(...); setData(json); })
FetchThen ==
  /\ fetchState = "pending"
  /\ \E json \in Datasets :
       LET sorted == [json EXCEPT !.tires = SortBySize(json.tires)]
       IN  Render(sorted, selectedTireIndex, totalLoad, speed, positions)
  /\ fetchState' = "fulfilled"
  /\ UNCHANGED <<loading, selectedTireIndex, totalLoad, speed, positions, call>>

\* fetch or res.json() rejects, or json has no tires array to sort.
FetchRejected ==
  /\ fetchState = "pending"
  /\ fetchState' = "rejected"
  /\ UNCHANGED <<data, loading, selectedTireIndex, totalLoad, speed, positions,
                 positionResults, crashed, call>>

\* .finally(() => setLoading(false))
FetchFinally ==
  /\ fetchState \in {"fulfilled", "rejected"}
  /\ ~crashed
  /\ loading' = FALSE
  /\ fetchState' = "settled"
  /\ UNCHANGED <<data, selectedTireIndex, totalLoad, speed, positions,
                 positionResults, crashed, call>>

\* The form is rendered once loading is over and there are tires.
Interactive ==
  /\ ~loading
  /\ ~crashed
  /\ data # Null
  /\ data.tires # <<>>

setSelectedTireIndex ==
  /\ Interactive
  /\ \E i \in 0..(Len(data.tires) - 1) :
       /\ selectedTireIndex' = i
       /\ Render(data, i, totalLoad, speed, positions)
  /\ UNCHANGED <<loading, fetchState, totalLoad, speed, positions, call>>

setTotalLoad ==
  /\ Interactive
  /\ \E v \in TotalLoads :
       /\ totalLoad' = v
       /\ Render(data, selectedTireIndex, v, speed, positions)
  /\ UNCHANGED <<loading, fetchState, selectedTireIndex, speed, positions, call>>

setSpeed ==
  /\ Interactive
  /\ \E v \in Speeds :
       /\ speed' = v
       /\ Render(data, selectedTireIndex, totalLoad, v, positions)
  /\ UNCHANGED <<loading, fetchState, selectedTireIndex, totalLoad, positions, call>>

setPositions(ps) ==
  /\ positions' = ps
  /\ Render(data, selectedTireIndex, totalLoad, speed, ps)
  /\ UNCHANGED <<loading, fetchState, selectedTireIndex, totalLoad, speed, call>>

\* A new axle created with one tire.
newPositionsSingleTire(ps) ==
  LET newId == ToString(Len(ps) + 1)
  IN  Append(ps, [id |-> newId, loadDistribution |-> Rat(13, 100),
                  tiresPerPosition |-> 1])

\* const newId = (positions.length + 1).toString(); [...positions, {...}]
newPositions(ps) ==
  LET newId == ToString(Len(ps) + 1)
  IN  Append(ps, [id |-> newId, loadDistribution |-> Rat(13, 100),
                  tiresPerPosition |-> 2])

addPosition ==
  /\ Interactive
  /\ Len(positions) < MaxPositions
  /\ setPositions(newPositions(positions))

\* positions.filter((p) => p.id !== id)
RECURSIVE filterNotId(_, _)
filterNotId(ps, id) ==
  IF ps = <<>> THEN <<>>
  ELSE IF Head(ps).id # id THEN <<Head(ps)>> \o filterNotId(Tail(ps), id)
  ELSE filterNotId(Tail(ps), id)

\* The remove button of a card is rendered when positions.length > 1.
removePosition ==
  /\ Interactive
  /\ Len(positions) > 1
  /\ \E i \in DOMAIN positions :
       setPositions(filterNotId(positions, positions[i].id))

\* positions.map((p) => (p.id === id ? { ...p, ...updates } : p))
updatedPositions(ps, id, updates) ==
  [i \in DOMAIN ps |->
     IF ps[i].id = id
     THEN [f \in DOMAIN ps[i] |->
             IF f \in DOMAIN updates THEN updates[f] ELSE ps[i][f]]
     ELSE ps[i]]

\* The Single/Tandem button of the card of positions[i].
toggleTires ==
  /\ Interactive
  /\ \E i \in DOMAIN positions :
       setPositions(updatedPositions(positions, positions[i].id,
         [tiresPerPosition |->
            IF positions[i].tiresPerPosition = 2 THEN 4 ELSE 2]))

\* The Load Dist. input of the card of positions[i].
editLoadDistribution ==
  /\ Interactive
  /\ \E i \in DOMAIN positions, v \in LoadDistributions :
       setPositions(updatedPositions(positions, positions[i].id,
                                     [loadDistribution |-> v]))

\* The Tires select of the card of positions[i].
selectTires ==
  /\ Interactive
  /\ \E i \in DOMAIN positions, v \in {2, 4} :
       setPositions(updatedPositions(positions, positions[i].id,
                                     [tiresPerPosition |-> v]))

Init == InitPage /\ call = [fn |-> "none"]

Next ==
  \/ FetchThen
  \/ FetchRejected
  \/ FetchFinally
  \/ setSelectedTireIndex
  \/ setTotalLoad
  \/ setSpeed
  \/ addPosition
  \/ removePosition
  \/ toggleTires
  \/ editLoadDistribution
  \/ selectTires

Spec == Init /\ [][Next]_vars

\* The promise chain of the load effect runs to its end: a pending fetch
\* settles and its callbacks are run.
SpecLive ==
  /\ Init
  /\ [][Next]_vars
  /\ WF_vars(FetchThen \/ FetchRejected)
  /\ WF_vars(FetchFinally)

----------------------------------------------------------------------------
(* The functions of calc.ts applied on their own: one application, to      *)
(* arguments drawn from the bounded sets, recorded in call.                 *)

TestRow(kmh, psi) == Row(kmh, 100, 100, 100, 100, 100, 100, psi)

TestRows == {TestRow(10 * s, psi) : s \in 1..MaxSpeedStep, psi \in {0, 5}}

TestTables == UNION {[1..n -> TestRows] : n \in 0..MaxRows}

CallLookupSpeedRow ==
  /\ call.fn = "none"
  /\ \E table \in TestTables, target \in 0..(10 * MaxSpeedStep + 5) :
       call' = [fn |-> "lookupSpeedRow", table |-> table, target |-> target,
                ret |-> lookupSpeedRow([tires |-> <<>>, speed_table |-> table],
                                       target)]
  /\ UNCHANGED pageVars

CallCalcResultLoad ==
  /\ call.fn = "none"
  /\ \E loadPerTire \in 0..MaxValue, loadIndex \in 1..MaxIndex :
       call' = [fn |-> "calcResultLoad", loadPerTire |-> loadPerTire,
                loadIndex |-> loadIndex,
                ret |-> calcResultLoad(Num(loadPerTire), Num(loadIndex))]
  /\ UNCHANGED pageVars

CallCalcResultIP ==
  /\ call.fn = "none"
  /\ \E ipByETRTO \in 0..MaxValue, stdIP \in 1..MaxIndex :
       call' = [fn |-> "calcResultIP", ipByETRTO |-> ipByETRTO,
                stdIP |-> stdIP,
                ret |-> calcResultIP(Num(ipByETRTO), Num(stdIP))]
  /\ UNCHANGED pageVars

CallCalcDamage ==
  /\ call.fn = "none"
  /\ \E loadPerTire \in 0..MaxDamageValue, ipByETRTO \in 0..MaxDamageValue,
        li \in 1..MaxDamageIndex, std \in 1..MaxDamageIndex :
       call' = [fn |-> "calcDamage", loadPerTire |-> loadPerTire,
                loadIndex |-> 10 * li, ipByETRTO |-> ipByETRTO,
                stdIP |-> 10 * std,
                ret |-> calcDamage(Num(loadPerTire), Num(10 * li),
                                   Num(ipByETRTO), Num(10 * std))]
  /\ UNCHANGED pageVars

NextCalc ==
  \/ CallLookupSpeedRow
  \/ CallCalcResultLoad
  \/ CallCalcResultIP
  \/ CallCalcDamage

SpecCalc == Init /\ [][NextCalc]_vars

----------------------------------------------------------------------------
(* The per-position computation applied on its own: getLimitLoad,           *)
(* calcIPByETRTO and the callback of positions.map, one application (or one *)
(* pair of applications to two total loads) recorded in call.               *)

\* Rows at 50 km/h whose entry for F is a number, a JSON null, or missing.
LimitRows ==
  {Row(50, f, 100, 100, 100, 100, 100, 0) : f \in {0, 93, 112}}
    \cup {[Row(50, 0, 100, 100, 100, 100, 100, 0) EXCEPT !.F = Null],
          RowNoF(50, 100, 100, 100, 100, 100, 0)}

CallGetLimitLoad ==
  /\ call.fn = "none"
  /\ \E loadIndex \in 0..MaxIndex, row \in LimitRows, symbol \in SpeedSymbol :
       call' = [fn |-> "getLimitLoad", loadIndex |-> loadIndex, row |-> row,
                symbol |-> symbol,
                ret |-> getLimitLoad(Num(loadIndex), row, symbol)]
  /\ UNCHANGED pageVars

CallCalcIPByETRTO ==
  /\ call.fn = "none"
  /\ \E loadPerTire \in (-MaxDamageValue)..MaxDamageValue,
        li \in (-MaxDamageIndex)..MaxDamageIndex, std \in 1..MaxDamageIndex :
       call' = [fn |-> "calcIPByETRTO", loadPerTire |-> loadPerTire,
                loadIndex |-> 10 * li, stdIP |-> 10 * std,
                ret |-> calcIPByETRTO(Num(loadPerTire), Num(10 * li),
                                      Num(10 * std))]
  /\ UNCHANGED pageVars

\* Total loads and positions the callback is applied to: the number inputs
\* of the form accept any number, the Load Dist. input has min 0 and max 1.
CallLoads == {Num(-35), Num(0), Num(23), Num(30), Num(35), Num(50)}

CallPositions ==
  {[id |-> "1", loadDistribution |-> ld, tiresPerPosition |-> n] :
     ld \in {Num(0), Rat(13, 100), Rat(18, 100), Rat(50, 100), Num(1)},
     n \in {2, 4}}

CallPositionResult ==
  /\ call.fn = "none"
  /\ \E pos \in CallPositions, row \in RowValues, tire \in TireValues,
        tl \in CallLoads :
       call' = [fn |-> "positionResult", totalLoad |-> tl, tire |-> tire,
                ret |-> PositionResult(pos, row, tire, tl)]
  /\ UNCHANGED pageVars

\* The callback applied to the same position, row and tire under two total
\* loads, the first less than the second.
CallPositionResultPair ==
  /\ call.fn = "none"
  /\ \E pos \in CallPositions, tire \in TireValues,
        tl1 \in CallLoads, tl2 \in CallLoads :
       /\ Cmp(tl1, tl2) < 0
       /\ call' = [fn |-> "positionResultPair", totalLoad1 |-> tl1,
                   totalLoad2 |-> tl2, tire |-> tire,
                   ret1 |-> PositionResult(pos, SpeedTable[1], tire, tl1),
                   ret2 |-> PositionResult(pos, SpeedTable[1], tire, tl2)]
  /\ UNCHANGED pageVars

NextPosition ==
  \/ CallGetLimitLoad
  \/ CallCalcIPByETRTO
  \/ CallPositionResult
  \/ CallPositionResultPair

SpecPosition == Init /\ [][NextPosition]_vars

----------------------------------------------------------------------------
(* Properties.                                                              *)

IsLookup == call.fn = "lookupSpeedRow"

DistinctSpeeds(table) ==
  \A i, j \in DOMAIN table : i # j => table[i].speed # table[j].speed

\* C1: for a non-empty table with distinct speeds and a target that is at
\* least the smallest speed, lookupSpeedRow returns the row with the greatest
\* speed that is <= the target (the row of that very speed when there is one).
C1_GreatestRowAtOrBelow ==
  (/\ IsLookup
   /\ call.table # <<>>
   /\ DistinctSpeeds(call.table)
   /\ \E j \in DOMAIN call.table : call.table[j].speed <= call.target)
  => \E i \in DOMAIN call.table :
       /\ call.ret = call.table[i]
       /\ call.table[i].speed <= call.target
       /\ \A j \in DOMAIN call.table :
            call.table[j].speed <= call.target
              => call.table[j].speed <= call.table[i].speed
       /\ \A j \in DOMAIN call.table :
            call.table[j].speed = call.target => call.ret = call.table[j]

\* A table stored out of order, a target equal to the speed of its first
\* row, which is not the smallest, and that row returned.
C1_Witness ==
  /\ IsLookup
  /\ Len(call.table) = 3
  /\ DistinctSpeeds(call.table)
  /\ call.table[1].speed > call.table[2].speed
  /\ call.table[3].speed > call.table[1].speed
  /\ call.target = call.table[1].speed
  /\ call.ret = call.table[1]

\* C2: for a non-empty table and a target below every speed, lookupSpeedRow
\* returns a row of the table, the one with the smallest speed, and no error.
C2_FloorClamp ==
  (/\ IsLookup
   /\ call.table # <<>>
   /\ \A j \in DOMAIN call.table : call.target < call.table[j].speed)
  => /\ call.ret # Undefined
     /\ \E i \in DOMAIN call.table :
          /\ call.ret = call.table[i]
          /\ \A j \in DOMAIN call.table :
               call.table[i].speed <= call.table[j].speed

\* The smallest speed is stored last and the target lies below it.
C2_Witness ==
  /\ IsLookup
  /\ Len(call.table) = 3
  /\ call.table[3].speed < call.table[1].speed
  /\ call.table[3].speed < call.table[2].speed
  /\ call.target < call.table[3].speed
  /\ call.ret = call.table[3]

\* C3: calcResultLoad returns "Over Load" exactly when loadPerTire is at
\* least 115% of loadIndex and "OK" otherwise (whole-number arguments).
C3_OverLoadFrom115Percent ==
  call.fn = "calcResultLoad"
  => /\ call.ret \in {"Over Load", "OK"}
     /\ (call.ret = "Over Load") <=> (100 * call.loadPerTire >= 115 * call.loadIndex)

\* A load exactly at 115% of a load index whose product with 1.15 is rounded
\* (100 * 1.15 is the double just below 115), classified as overload.
C3_Witness ==
  /\ call.fn = "calcResultLoad"
  /\ call.loadIndex = 100
  /\ call.loadPerTire = 115
  /\ call.ret = "Over Load"

\* C4 as stated: calcResultIP returns "CONSULT TO BS" exactly when ipByETRTO
\* is at least 110% of stdIP and "OK" otherwise.
C4_ConsultFrom110Percent ==
  call.fn = "calcResultIP"
  => /\ call.ret \in {"CONSULT TO BS", "OK"}
     /\ (call.ret = "CONSULT TO BS") <=> (10 * call.ipByETRTO >= 11 * call.stdIP)

NonNegativePercentStrings == {ToString(n) \o "%" : n \in 0..1000}

\* C5 as stated: the damage of calcDamage is "OK" when the verdict is OK and
\* a non-negative integer percentage string when it is not, for the load
\* and for the pressure.
C5_DamageAgreesWithVerdict ==
  call.fn = "calcDamage"
  => /\ IF calcResultLoad(Num(call.loadPerTire), Num(call.loadIndex)) = "OK"
        THEN call.ret.load = "OK"
        ELSE call.ret.load \in NonNegativePercentStrings
     /\ IF calcResultIP(Num(call.ipByETRTO), Num(call.stdIP)) = "OK"
        THEN call.ret.ip = "OK"
        ELSE call.ret.ip \in NonNegativePercentStrings

\* round(((x - b) / b) * 100) for x = n / d and a whole number b, halves up.
RoundedPercent(n, d, b) == (200 * (n - b * d) + b * d) \div (2 * b * d)

selectedTire == selectedTireOf(data, selectedTireIndex)

PassDone == data # Null /\ selectedTire # Null /\ ~crashed

\* C6 as stated: whenever a position is overloaded its load damage is
\* round(((loadPerTire - loadIndex) / loadIndex) * 100) followed by "%".
C6_LoadDamageIsRoundedPercent ==
  PassDone =>
    \A i \in DOMAIN positionResults :
      LET r == positionResults[i]
      IN  r.resultLoad = "Over Load"
          => r.damage.load =
               ToString(RoundedPercent(r.loadPerTire.n, r.loadPerTire.d,
                                       selectedTire["LOAD INDEX"])) \o "%"

\* C7 as stated: whenever the pressure is non-compliant its pressure damage
\* is round(((ipByETRTO - stdIP) / stdIP) * 100) followed by "%".
C7_PressureDamageIsRoundedPercent ==
  (/\ call.fn = "calcDamage"
   /\ calcResultIP(Num(call.ipByETRTO), Num(call.stdIP)) = "CONSULT TO BS")
  => call.ret.ip =
       ToString(RoundedPercent(call.ipByETRTO, 1, call.stdIP)) \o "%"

\* C8 as stated: the ids of the configured positions are pairwise distinct.
C8_IdsDistinct ==
  \A i, j \in DOMAIN positions : i # j => positions[i].id # positions[j].id

\* C9: a calculation pass yields one PositionResult per position, in the
\* order of the positions: result i carries position i.
C9_ResultsFollowPositions ==
  PassDone =>
    /\ Len(positionResults) = Len(positions)
    /\ \A i \in DOMAIN positions : positionResults[i].position = positions[i]

\* Three positions, the first and the last different, each with its result.
C9_Witness ==
  /\ PassDone
  /\ Len(positions) = 3
  /\ positions[1] # positions[3]
  /\ positions[1] # positions[2]
  /\ Len(positionResults) = 3
  /\ positionResults[3].position = positions[3]

\* C10: all PositionResults of a pass carry the same speed row, the row of
\* the table resolved from the current speed.
C10_OneRowPerPass ==
  PassDone =>
    \A i \in DOMAIN positionResults :
      /\ \A j \in DOMAIN positionResults :
           positionResults[j].row = positionResults[i].row
      /\ \E k \in DOMAIN data.speed_table :
           /\ positionResults[i].row = data.speed_table[k]
           /\ \/ data.speed_table[k].speed <= speed
              \/ \A m \in DOMAIN data.speed_table :
                   data.speed_table[k].speed <= data.speed_table[m].speed
           /\ \A m \in DOMAIN data.speed_table :
                data.speed_table[m].speed <= speed
                  => data.speed_table[m].speed <= data.speed_table[k].speed

\* Three positions at speed 65: each result carries the row of speed 65,
\* the last of the sorted table.
C10_Witness ==
  /\ PassDone
  /\ Len(positionResults) = 3
  /\ speed = 65
  /\ \A i \in DOMAIN positionResults : positionResults[i].row.speed = 65

\* The fields of a PositionResult that are computed for its position.
ComputedFields(r) ==
  <<r.loadPerTire, r.limitLoad, r.ipByETRTO, r.resultLoad, r.resultIP, r.damage>>

\* C11: the result of a position depends only on that position's own fields
\* and the shared inputs: over a step that adds, removes or edits positions
\* and leaves the data, the selected tire, the total load and the speed
\* alone, every position that is in the list before and after the step has
\* the same loadPerTire, limitLoad, ipByETRTO, verdicts and damage before
\* and after, wherever in the list it stands.
C11_ResultDependsOnOwnPosition ==
  [][(PassDone /\ PassDone'
       /\ UNCHANGED <<data, selectedTireIndex, totalLoad, speed>>)
     => \A i \in DOMAIN positions, j \in DOMAIN positions' :
          positions[i] = positions'[j]
            => ComputedFields(positionResults[i])
                 = ComputedFields(positionResults'[j])]_vars

\* Two positions with different results, the first of which has moved to the
\* front after the removal of position "1".
C11_Witness ==
  /\ PassDone
  /\ Len(positions) >= 2
  /\ Len(positionResults) = Len(positions)
  /\ positions[1].id = "2"
  /\ positionResults[1].loadPerTire # positionResults[2].loadPerTire

\* C12: in every state of the page the displayed positionResults are the
\* results of one pass over the current selected tire, total load, speed,
\* positions and speed table: they are never those of earlier inputs.
C12_ResultsAreCurrent ==
  ~crashed =>
    positionResults =
      positionResultsOf(data, selectedTire, positions, totalLoad, speed)

\* Every input has been changed from its initial value and results are shown.
C12_Witness ==
  /\ PassDone
  /\ selectedTireIndex # 0
  /\ totalLoad # Num(35)
  /\ speed # 50
  /\ Len(positions) >= 2
  /\ positions[1].tiresPerPosition = 4
  /\ Len(positionResults) = Len(positions)

\* C13: the stored load per tire of every position is
\* (totalLoad * loadDistribution / tiresPerPosition) * 1000, unrounded.
C13_LoadPerTireFormula ==
  PassDone =>
    \A i \in DOMAIN positionResults :
      LET pos == positionResults[i].position
      IN  positionResults[i].loadPerTire =
            Rat(totalLoad.n * pos.loadDistribution.n * 1000,
                totalLoad.d * pos.loadDistribution.d * pos.tiresPerPosition)

\* A position whose load per tire is not a whole number of kilograms.
C13_Witness ==
  /\ PassDone
  /\ \E i \in DOMAIN positionResults :
       /\ positionResults[i].position = positions[i]
       /\ positionResults[i].loadPerTire.d # 1

\* The JavaScript operator < (false as soon as one side is NaN).
Lt(x, y) == Ge(y, x) /\ ~Ge(x, y)

IsPair == call.fn = "positionResultPair"

\* The two total loads of a pair are in the input domain (positive tons).
PositiveLoads == Sign(call.totalLoad1) > 0 /\ Sign(call.totalLoad2) > 0

\* The pair shows a strict increase of load per tire and, for a positive
\* LOAD INDEX, of the inflation pressure.
StrictIncrease ==
  /\ Lt(call.ret1.loadPerTire, call.ret2.loadPerTire)
  /\ call.tire["LOAD INDEX"] > 0
       => Lt(call.ret1.ipByETRTO, call.ret2.ipByETRTO)

IsLimit == call.fn = "getLimitLoad"

\* C15: getLimitLoad returns loadIndex times the factor the row holds for
\* the symbol; with a factor of 0 it returns 0 and raises nothing.
C15_LimitLoadIsIndexTimesFactor ==
  (IsLimit /\ call.symbol \in DOMAIN call.row
     /\ call.row[call.symbol] # Null)
  => LET factor == call.row[call.symbol]
     IN  /\ call.ret # TypeError
         /\ call.ret = Rat(call.loadIndex * factor.n, factor.d)
         /\ factor = Num(0) => call.ret = Num(0)

\* A positive load index against a factor of 0, and against a factor that
\* is not a whole number.
C15_Witness ==
  /\ IsLimit
  /\ call.symbol = "F"
  /\ call.symbol \in DOMAIN call.row
  /\ call.loadIndex > 0
  /\ call.row["F"] = Num(0)
  /\ call.ret = Num(0)

\* C16: when the row has no key for the symbol, getLimitLoad returns 0, as
\* it does for a factor of 0, and raises nothing.
C16_MissingFactorGivesZero ==
  (IsLimit /\ call.symbol \notin DOMAIN call.row) => call.ret = Num(0)

\* x is an exception raised to the caller, not a value returned to it.
Thrown(x) == "thrown" \in DOMAIN x

\* C17: for a speed table with zero rows lookupSpeedRow fails with an
\* "empty table" condition and returns no value to the caller.
C17_EmptyTableFails ==
  (IsLookup /\ call.table = <<>>) => Thrown(call.ret)

\* C18: for loadIndex <= 0 calcIPByETRTO fails with a "division by zero"
\* condition and returns no pressure to the caller.
C18_NonPositiveLoadIndexFails ==
  (call.fn = "calcIPByETRTO" /\ call.loadIndex <= 0) => Thrown(call.ret)

\* C19: for a positive LOAD INDEX and a zero or negative load per tire the
\* pressure is a defined number within 1 psi of zero, and the position's
\* pressure verdict and pressure damage are both "OK".
C19_NonPositiveLoadGivesZeroPressure ==
  (call.fn = "positionResult" /\ call.tire["LOAD INDEX"] > 0
     /\ Le(call.ret.loadPerTire, Num(0)))
  => /\ IsFin(call.ret.ipByETRTO)
     /\ Le(call.ret.ipByETRTO, Num(1))
     /\ Ge(call.ret.ipByETRTO, Num(-1))
     /\ call.ret.resultIP = "OK"
     /\ call.ret.damage.ip = "OK"

\* The orders in which n rows can be stored.
StorageOrders(n) ==
  {q \in [1..n -> 1..n] : \A i, j \in 1..n : q[i] = q[j] => i = j}

\* C20: for a table of distinct speeds and any target, lookupSpeedRow
\* returns the same row whatever the order in which the rows are stored.
C20_SameRowForEveryStorageOrder ==
  (IsLookup /\ DistinctSpeeds(call.table))
  => \A q \in StorageOrders(Len(call.table)) :
       lookupSpeedRow([tires |-> <<>>,
                       speed_table |-> [i \in DOMAIN call.table |->
                                          call.table[q[i]]]],
                      call.target) = call.ret

\* Three rows stored out of order, the row found being the last stored.
C20_Witness ==
  /\ IsLookup
  /\ Len(call.table) = 3
  /\ DistinctSpeeds(call.table)
  /\ call.table[1].speed > call.table[3].speed
  /\ call.table[3].speed > call.table[2].speed
  /\ call.ret = call.table[3]

\* C21: once the reference data is loaded, no lookup and no calculation
\* pass changes the order or the contents of data.speed_table or data.tires.
\* (The data held by the page is, in every state, the fetched JSON with its
\* tires in the order the load's sort gave them and its speed table as
\* stored.)
C21_ReferenceDataNeverMutated ==
  data # Null =>
    \E json \in Datasets :
      /\ data.speed_table = json.speed_table
      /\ data.tires = SortBySize(json.tires)

\* Passes have run, at a speed that is not the initial one, over a speed
\* table that is stored out of order.
C21_Witness ==
  /\ PassDone
  /\ speed = 65
  /\ Len(positions) >= 2
  /\ Len(positionResults) = Len(positions)
  /\ Len(data.speed_table) >= 2
  /\ data.speed_table[1].speed > data.speed_table[2].speed

\* C22: after any sequence of add, remove, toggle, tire-count select and
\* load-distribution edit, every position has 2 or 4 tires.
C22_TwoOrFourTires ==
  \A i \in DOMAIN positions : positions[i].tiresPerPosition \in {2, 4}

\* Positions added, one removed, and both tire counts present.
C22_Witness ==
  /\ Len(positions) >= 2
  /\ positions[1].id # "1"
  /\ positions[1].tiresPerPosition = 4
  /\ positions[2].tiresPerPosition = 2
  /\ positions[1].loadDistribution = Rat(50, 100)

\* C23: for loadPerTire >= 0, loadIndex > 0 and stdIP > 0 the pressure ip
\* returned is (loadPerTire / loadIndex) ^ 1.25 * stdIP, that is, ip >= 0
\* and ip^4 * loadIndex^5 = loadPerTire^5 * stdIP^4.
C23_PressureFormula ==
  (call.fn = "calcIPByETRTO" /\ call.loadPerTire >= 0 /\ call.loadIndex > 0
     /\ call.stdIP > 0)
  => LET ip == call.ret
     IN  /\ IsFin(ip)
         /\ ip.n >= 0
         /\ BigCmp(BigProd(Rep(ip.n, 4) \o Rep(ip.pn, 5)
                             \o Rep(call.loadIndex, 5)),
                   BigProd(Rep(ip.d, 4) \o Rep(ip.pd, 5)
                             \o Rep(call.loadPerTire, 5)
                             \o Rep(call.stdIP, 4))) = 0

\* A load above the load index whose ratio has no rational power 1.25.
C23_Witness ==
  /\ call.fn = "calcIPByETRTO"
  /\ call.loadPerTire = 40
  /\ call.loadIndex = 30
  /\ call.stdIP = 20
  /\ IsFin(call.ret)
  /\ Ge(call.ret, Num(28)) /\ Le(call.ret, Num(29))

IsPositionResult == call.fn = "positionResult"

\* C24: for 0 <= loadPerTire <= loadIndex (loadIndex > 0, stdIP > 0) the
\* pressure does not exceed stdIP, and the pressure verdict and the pressure
\* damage are both "OK".
C24_WithinLoadIndexPressureOK ==
  (IsPositionResult /\ call.tire["LOAD INDEX"] > 0 /\ call.tire["STD I/P"] > 0
     /\ Ge(call.ret.loadPerTire, Num(0))
     /\ Le(call.ret.loadPerTire, Num(call.tire["LOAD INDEX"])))
  => /\ Le(call.ret.ipByETRTO, Num(call.tire["STD I/P"]))
     /\ call.ret.resultIP = "OK"
     /\ call.ret.damage.ip = "OK"

\* The scenario: 2700 kg on a tire of load index 2722 and 120 psi gives
\* about 118.8 psi.
C24_Witness ==
  /\ IsPositionResult
  /\ call.tire["LOAD INDEX"] = 2722
  /\ call.tire["STD I/P"] = 120
  /\ call.ret.loadPerTire = Num(2700)
  /\ Ge(call.ret.ipByETRTO, Rat(1187, 10))
  /\ Le(call.ret.ipByETRTO, Rat(1189, 10))
  /\ call.ret.resultIP = "OK"
  /\ call.ret.damage.ip = "OK"

\* C26: for a tire with loadIndex > 0 and stdIP > 0, a load verdict of
\* "Over Load" comes with a pressure verdict of "CONSULT TO BS".
C26_OverLoadImpliesConsult ==
  (IsPositionResult /\ call.tire["LOAD INDEX"] > 0 /\ call.tire["STD I/P"] > 0
     /\ call.ret.resultLoad = "Over Load")
  => call.ret.resultIP = "CONSULT TO BS"

\* A position loaded at exactly 115% of the load index.
C26_Witness ==
  /\ IsPositionResult
  /\ call.tire["LOAD INDEX"] = 5000
  /\ call.ret.loadPerTire = Num(5750)
  /\ call.ret.resultLoad = "Over Load"
  /\ call.ret.resultIP = "CONSULT TO BS"

\* C25: when the greatest speed at or below the target is held by several
\* rows, lookupSpeedRow returns the one of them that is stored last.
C25_LastDuplicateWins ==
  (IsLookup /\ call.table # <<>> /\ call.ret.speed <= call.target)
  => \E i \in DOMAIN call.table :
       /\ call.ret = call.table[i]
       /\ \A j \in DOMAIN call.table :
            call.table[j].speed = call.ret.speed => j <= i

\* Two rows of the speed found, with different psi, the second of them the
\* row returned, and a row of a lower speed stored after them.
C25_Witness ==
  /\ IsLookup
  /\ Len(call.table) = 3
  /\ call.table[1].speed = call.table[2].speed
  /\ call.table[1] # call.table[2]
  /\ call.table[3].speed < call.table[1].speed
  /\ call.table[1].speed <= call.target
  /\ call.ret = call.table[2]

\* The fields of a PositionResult other than the row and the limit load.
SpeedFreeFields(r) ==
  <<r.position, r.loadPerTire, r.ipByETRTO, r.resultLoad, r.resultIP, r.damage>>

\* C27: over a step that changes only the speed, every PositionResult keeps
\* its loadPerTire, ipByETRTO, load verdict, pressure verdict and both
\* damage strings; only its row and limitLoad may change.
C27_SpeedChangesOnlyRowAndLimit ==
  [][(PassDone /\ PassDone' /\ speed' # speed
       /\ UNCHANGED <<data, selectedTireIndex, totalLoad, positions>>)
     => /\ DOMAIN positionResults' = DOMAIN positionResults
        /\ \A i \in DOMAIN positionResults :
             SpeedFreeFields(positionResults'[i])
               = SpeedFreeFields(positionResults[i])]_vars

\* The speed has been raised to the 65 km/h row and a position is loaded
\* above the limit load of that row although its load verdict is "OK".
C27_Witness ==
  /\ PassDone
  /\ speed = 65
  /\ positionResults # <<>>
  /\ positionResults[1].row.speed = 65
  /\ positionResults[1].resultLoad = "OK"
  /\ IsFin(positionResults[1].limitLoad)
  /\ Ge(positionResults[1].loadPerTire, positionResults[1].limitLoad)

\* ps without its i-th element.
RemoveAt(ps, i) ==
  [j \in 1..(Len(ps) - 1) |-> IF j < i THEN ps[j] ELSE ps[j + 1]]

\* C28: an update issued from one card changes that one position only and
\* keeps the length and the order of the list; a removal issued from one
\* card removes exactly that one position and leaves the others as they
\* were, after any earlier adds and removes.
C28_OneCardOnePosition ==
  [][(Interactive /\ positions' # positions)
     => \/ Len(positions') = Len(positions) + 1
        \/ \E i \in DOMAIN positions : positions' = RemoveAt(positions, i)
        \/ /\ Len(positions') = Len(positions)
           /\ \E i \in DOMAIN positions :
                \A j \in DOMAIN positions :
                  j # i => positions'[j] = positions[j]]_vars

\* C29: the list of positions is never empty.
C29_PositionsNeverEmpty ==
  Len(positions) >= 1

====
